---- MODULE Spec2Model ----
(***************************************************************************)
(* Model of torcheeg's DANNTrainer (trainers/domain_adaption/dann.py),     *)
(* its GradientReverse autograd function, and AMIGOSDataset                *)
(* (datasets/module/emotion_recognition/amigos.py).                        *)
(*                                                                         *)
(* Abstractions: a tensor is a finite sequence of integers; a batch of a   *)
(* loader is identified by its position in the loader; the three networks  *)
(* are fixed functions of their input and of the parameter version (the    *)
(* number of optimizer steps taken); nn.CrossEntropyLoss is a fixed        *)
(* positive function of (prediction, target); floats are fixed-point       *)
(* integers with Scale units per 1.0, and p is kept as an exact fraction.  *)
(***************************************************************************)
EXTENDS Integers, Sequences, FiniteSets, TLC

\* ---------------------------------------------------------------- bounds
MaxLen == 3         \* longest source / target loader, the example apart
MaxVal == 1         \* longest validation / test loader
MaxEpochs == 2      \* largest num_epochs passed to fit
MaxClasses == 3     \* largest number of classes
MaxLambd == 2       \* largest loss weight lambd, the one fit is run with
Scale == 1000       \* fixed-point units per 1.0
MaxDim == 2         \* longest tensor handed to GradientReverse
MaxMag == 2         \* largest magnitude of a tensor entry
MaxAlpha == 3       \* largest reversal coefficient handed to GradientReverse
MaxChunk == 1       \* largest chunk_size
MaxTrials == 1      \* largest trial_num
SigLen == 3         \* samples per trial of the raw recording
MaxConstructs == 2  \* AMIGOSDataset constructions in one run

\* the lengths of the source and target loader fit is called with: every
\* pair up to MaxLen, and the lengths 10 and 4 of the documented example
LoaderPairs == ((0 .. MaxLen) \X (0 .. MaxLen)) \cup {<<10, 4>>}

None == "None"
\* an optional value: <<>> when absent (None / no attribute), <<v>> otherwise
Opt(S) == {<<>>} \cup {<<v>> : v \in S}
ModuleNames == {"extractor", "classifier", "domain_classifier"}
MetricNames == {"train_loss", "train_accuracy", "val_loss", "val_accuracy",
                "test_loss", "test_accuracy"}

VARIABLES
    pc,               \* control position of the trainer's caller
    num_classes,      \* self.num_classes
    adaption_factor,  \* self.adaption_factor
    lambd,            \* self.lambd
    is_main,          \* self.is_main
    world_size,       \* self.world_size
    created,          \* attributes __init__ has created so far
    optimizer,        \* self.optimizer: calls of zero_grad and of step
    metric,           \* the six torchmetrics accumulators
    mode,             \* train / eval mode of the three modules
    loaders,          \* lengths of the loaders handed to fit / test
    num_epochs,       \* fit's num_epochs
    t,                \* fit's epoch index
    num_batches,      \* fit's num_batches
    zip_loader,       \* fit's zip_loader (the two iterators)
    val_iter,         \* cursor of the validation / test loader iterator
    enum,             \* next index the running enumerate will yield
    batch_id,         \* batch_id bound by the running for statement
    cur,              \* the batches bound by the running for statement
    events,           \* hook and step invocations since fit / test began
    calls,            \* operations performed by the last step, in order
    last,             \* values computed by the last training step
    log,              \* lines written by self.log in on_training_step
    ctor_call,        \* num_classes arguments of the constructor call, kept
                      \* by CtorSpec only: <<>> or <<[arg, attr]>>
    ctor_af,          \* adaption_factor argument of the constructor call:
                      \* <<>> when the call does not pass it
    sampled_at        \* <<epoch_id, batch_id>> of the training steps of this
                      \* fit that computed the training metrics

trainerVars == <<pc, num_classes, adaption_factor, lambd, is_main, world_size,
                 created, optimizer, metric, mode, loaders, num_epochs, t,
                 num_batches, zip_loader, val_iter, enum, batch_id, cur, events,
                 calls, last, log, ctor_call, ctor_af, sampled_at>>

VARIABLES
    gpc,              \* position of the autograd round trip
    gx,               \* x handed to GradientReverse.apply
    galpha,           \* alpha handed to GradientReverse.apply
    ggrad,            \* gradient arriving at the output
    gctx,             \* ctx.alpha, <<>> before forward
    gout,             \* what forward returned, <<>> before forward
    gback             \* what backward returned, <<>> before backward

gradVars == <<gpc, gx, galpha, ggrad, gctx, gout, gback>>

VARIABLES
    fs,               \* per io_path: <<>> or the cache directory's contents
    writes,           \* chunk writes performed so far
    constructs,       \* AMIGOSDataset constructions so far
    ds,               \* the latest AMIGOSDataset object, <<>> before any
    ret               \* what the last __getitem__ returned, with its index

dataVars == <<fs, writes, constructs, ds, ret>>

vars == <<trainerVars, gradVars, dataVars>>

\* ------------------------------------------------------------- helpers
Max(a, b) == IF a > b THEN a ELSE b

\* math.ceil(n / d) for n >= 0, d > 0
Ceil(n, d) == (n + d - 1) \div d

\* ------------------------------------------------------ GradientReverse
\* forward(ctx, x, alpha): ctx.alpha = alpha; return x.view_as(x)
GRForward(x, alpha) == [out |-> x, ctx |-> alpha]

\* the gradient scaled but not negated
GRBackward_NoNeg(ctx, grad_output) ==
    <<[i \in DOMAIN grad_output |-> grad_output[i] * ctx], None>>

\* backward(ctx, grad_output): grad_output.neg() * ctx.alpha, None
GRBackward(ctx, grad_output) ==
    <<[i \in DOMAIN grad_output |-> (0 - grad_output[i]) * ctx], None>>

\* ---------------------------------------------------- external functions
\* batches of the loaders: features and label of batch i
SourceBatch(i, nc) == <<<<i, 0>>, i % nc>>
TargetBatch(i) == <<<<i, 1>>>>
ValBatch(i, nc) == <<<<i, 2>>, (i + 1) % nc>>

\* the three networks, as functions of the input and the parameter version
Extractor(X, ver) == <<X[1] + ver, X[2]>>
Classifier(feat, nc) == (feat[1] + feat[2]) % nc
DomainClassifier(feat) == (feat[1] + 2 * feat[2]) % 2

\* nn.CrossEntropyLoss: positive, smallest when prediction meets the target
LossFn(pred, target) == IF pred = target THEN 1 ELSE 3 + pred

\* exp(num/den) in fixed point: sum of the series term_k = term_{k-1}*x/k
RECURSIVE ExpSeries(_, _, _, _, _)
ExpSeries(num, den, k, term, acc) ==
    IF term = 0 THEN acc
    ELSE ExpSeries(num, den, k + 1, (term * num) \div (den * k), acc + term)

Exp(num, den) == ExpSeries(num, den, 1, Scale, 0)

\* gamma = 2. / (1. + np.exp(-10 * p)) - 1, p = pNum / pDen
AdaptiveGamma(pNum, pDen) ==
    LET expNeg == (Scale * Scale) \div Exp(10 * pNum, pDen)
    IN  (2 * Scale * Scale) \div (Scale + expNeg) - Scale

\* ------------------------------------------------------------ iterators
\* iter(DataLoader): yields batches 0 .. len-1 once
PlainIter(len) == [cyc |-> FALSE, len |-> len, pos |-> 0, saved |-> <<>>, idx |-> 0]

\* itertools.cycle(DataLoader): yields and saves the batches, then replays
CycleIter(len) == [cyc |-> TRUE, len |-> len, pos |-> 0, saved |-> <<>>, idx |-> 0]

\* a cycle whose replay never advances past the first saved batch
IterNext_StuckReplay(it) ==
    IF it.pos < it.len
    THEN [ok |-> TRUE, item |-> it.pos,
          it |-> [it EXCEPT !.pos = @ + 1,
                            !.saved = IF it.cyc THEN Append(@, it.pos) ELSE @]]
    ELSE IF it.cyc /\ Len(it.saved) > 0
    THEN [ok |-> TRUE, item |-> it.saved[it.idx + 1], it |-> it]
    ELSE [ok |-> FALSE, item |-> 0, it |-> it]

\* next(it): [ok, item, it]
IterNext(it) ==
    IF it.pos < it.len
    THEN [ok |-> TRUE, item |-> it.pos,
          it |-> [it EXCEPT !.pos = @ + 1,
                            !.saved = IF it.cyc THEN Append(@, it.pos) ELSE @]]
    ELSE IF it.cyc /\ Len(it.saved) > 0
    THEN [ok |-> TRUE, item |-> it.saved[it.idx + 1],
          it |-> [it EXCEPT !.idx = (@ + 1) % Len(it.saved)]]
    ELSE [ok |-> FALSE, item |-> 0, it |-> it]

\* next(zip(a, b)): a is advanced first, b only when a produced an item
ZipNext(z) ==
    LET ra == IterNext(z[1]) IN
    IF ~ra.ok THEN [ok |-> FALSE, items |-> <<0, 0>>, z |-> <<ra.it, z[2]>>]
    ELSE LET rb == IterNext(z[2]) IN
         [ok |-> rb.ok, items |-> <<ra.item, rb.item>>, z |-> <<ra.it, rb.it>>]

\* zip(source_loader, target_loader): neither loader is cycled
MakeZipLoader_NoCycle(lenS, lenT) == <<PlainIter(lenS), PlainIter(lenT)>>

\* zip(source_loader, cycle(target_loader)) if len(source) > len(target)
\* else zip(cycle(source_loader), target_loader)
MakeZipLoader(lenS, lenT) ==
    IF lenS > lenT THEN <<PlainIter(lenS), CycleIter(lenT)>>
    ELSE <<CycleIter(lenS), PlainIter(lenT)>>

Event(ev, a, b, x) == [ev |-> ev, a |-> a, b |-> b, x |-> x]

NoMetric == [sum |-> 0, n |-> 0]
NoLast == [valid |-> FALSE, pNum |-> 0, pDen |-> 1, gamma |-> 0,
           X_source_feat |-> <<>>, X_target_feat |-> <<>>,
           y_source_pred |-> 0, y_source |-> 0,
           source_domain |-> 0, target_domain |-> 0,
           task_loss |-> 0, disc_loss_source |-> 0, disc_loss_target |-> 0,
           loss |-> 0, sampled |-> FALSE]

\* ------------------------------------------------------------- trainer
TrainerInit ==
    /\ pc = "new"
    /\ num_classes = <<>>
    /\ adaption_factor = FALSE
    /\ lambd = 0
    /\ is_main = TRUE
    /\ world_size = 1
    /\ created = {}
    /\ optimizer = [zero_grad |-> 0, step |-> 0]
    /\ metric = [m \in MetricNames |-> NoMetric]
    /\ mode = [m \in ModuleNames |-> "train"]
    /\ loaders = [source |-> 0, target |-> 0, val |-> 0, test |-> 0]
    /\ num_epochs = 0
    /\ t = 0
    /\ num_batches = 0
    /\ zip_loader = MakeZipLoader(0, 0)
    /\ val_iter = PlainIter(0)
    /\ enum = 0
    /\ batch_id = 0
    /\ cur = <<>>
    /\ events = <<>>
    /\ calls = <<>>
    /\ last = NoLast
    /\ log = <<>>
    /\ ctor_call = <<>>
    /\ ctor_af = <<>>
    /\ sampled_at = {}

\* the classifier's attribute taking precedence over the argument
ResolveNumClasses_AttrFirst(arg, attr) ==
    IF attr /= <<>> THEN attr
    ELSE IF arg /= <<>> THEN arg
    ELSE <<>>

\* DANNTrainer.__init__(..., lambd, adaption_factor, num_classes, ...):
\* arg is the num_classes argument, attr the classifier's num_classes
\* attribute (each absent or a value), main tells whether this replica is
\* the main one (a lone replica always is); af is the adaption_factor
\* argument, absent when the call leaves it to the default.
ResolveNumClasses(arg, attr) ==
    IF arg /= <<>> THEN arg
    ELSE IF attr /= <<>> THEN attr
    ELSE <<>>

\* adaption_factor: bool = False (line 116)
DefaultAdaptionFactor == FALSE

Construct(arg, attr, lam, af, main) ==
    /\ pc = "new"
    /\ lambd' = lam
    /\ ctor_af' = af
    /\ adaption_factor' = (IF af = <<>> THEN DefaultAdaptionFactor ELSE af[1])
    /\ is_main' = main
    /\ world_size' = IF main THEN 1 ELSE 2
    /\ LET before == {"modules", "lr", "weight_decay", "lambd", "adaption_factor"}
           nc == ResolveNumClasses(arg, attr)
       IN  IF nc = <<>>
           THEN /\ pc' = "ValueError"
                /\ created' = before
                /\ num_classes' = <<>>
           ELSE /\ pc' = "ready"
                /\ num_classes' = nc
                /\ created' = before \cup {"num_classes", "optimizer", "loss_fn"}
                                      \cup MetricNames
    /\ UNCHANGED <<gradVars, dataVars, optimizer, metric, mode, loaders, num_epochs, t, num_batches,
                   zip_loader, val_iter, enum, batch_id, cur, events, calls,
                   last, log, sampled_at>>

\* fit(source_loader, target_loader, val_loader, num_epochs): lines 246-248
FitBegin(ls, lt, lv, n) ==
    /\ pc = "ready"
    /\ pc' = "epoch"
    /\ loaders' = [loaders EXCEPT !.source = ls, !.target = lt, !.val = lv]
    /\ num_epochs' = n
    /\ t' = 0
    /\ events' = <<>>
    /\ sampled_at' = {}
    /\ UNCHANGED <<ctor_call, ctor_af, gradVars, dataVars, num_classes, adaption_factor, lambd, is_main, world_size,
                   created, optimizer, metric, mode, num_batches, zip_loader,
                   val_iter, enum, batch_id, cur, calls, last, log>>

\* the modules left in the mode they are in
ModulesTrain_Skip(md) == md

\* for k, m in self.modules.items(): self.modules[k].train() (lines 261-262)
ModulesTrain(md) == [k \in DOMAIN md |-> "train"]

\* for k, m in self.modules.items(): self.modules[k].eval() (lines 284-285)
ModulesEval(md) == [k \in DOMAIN md |-> "eval"]

\* for t in range(num_epochs): one more epoch; lines 250-269
EpochStart ==
    /\ pc = "epoch"
    /\ t < num_epochs
    /\ pc' = "train_loop"
    /\ num_batches' = Max(loaders.source, loaders.target)
    /\ mode' = ModulesTrain(mode)
    /\ zip_loader' = MakeZipLoader(loaders.source, loaders.target)
    /\ enum' = 0
    /\ events' = Append(events, Event("before_training_epoch", t + 1, num_epochs, <<>>))
    /\ UNCHANGED <<ctor_call, ctor_af, sampled_at, gradVars, dataVars, num_classes, adaption_factor, lambd, is_main, world_size,
                   created, optimizer, metric, loaders, num_epochs, t, val_iter,
                   batch_id, cur, calls, last, log>>

\* for t in range(num_epochs): exhausted; return self (line 299)
FitReturn ==
    /\ pc = "epoch"
    /\ t >= num_epochs
    /\ pc' = "fit_done"
    /\ UNCHANGED <<ctor_call, ctor_af, sampled_at, gradVars, dataVars, num_classes, adaption_factor, lambd, is_main, world_size,
                   created, optimizer, metric, mode, loaders, num_epochs, t,
                   num_batches, zip_loader, val_iter, enum, batch_id, cur,
                   events, calls, last, log>>

\* for batch_id, (...) in enumerate(zip_loader): a pair is produced;
\* before_training_step (lines 270-273)
TrainFetch ==
    /\ pc = "train_loop"
    /\ LET r == ZipNext(zip_loader) IN
       /\ r.ok
       /\ zip_loader' = r.z
       /\ cur' = r.items
    /\ batch_id' = enum
    /\ enum' = enum + 1
    /\ events' = Append(events, Event("before_training_step", enum, num_batches, <<>>))
    /\ pc' = "on_training_step"
    /\ UNCHANGED <<ctor_call, ctor_af, sampled_at, gradVars, dataVars, num_classes, adaption_factor, lambd, is_main, world_size,
                   created, optimizer, metric, mode, loaders, num_epochs, t,
                   num_batches, val_iter, calls, last, log>>

\* before_validation_epoch invoked ahead of after_training_epoch
TrainEpochEnd_ValHookFirst ==
    /\ pc = "train_loop"
    /\ LET r == ZipNext(zip_loader) IN
       /\ ~r.ok
       /\ zip_loader' = r.z
    /\ mode' = ModulesEval(mode)
    /\ num_batches' = loaders.val
    /\ val_iter' = PlainIter(loaders.val)
    /\ enum' = 0
    /\ events' = events \o <<Event("before_validation_epoch", t + 1, num_epochs, <<>>),
                             Event("after_training_epoch", t + 1, num_epochs, <<>>)>>
    /\ pc' = "val_loop"
    /\ UNCHANGED <<ctor_call, ctor_af, sampled_at, gradVars, dataVars, num_classes, adaption_factor,
                   lambd, is_main, world_size, created, optimizer, metric,
                   loaders, num_epochs, t, batch_id, cur, calls, last, log>>

\* the zip is exhausted: after_training_epoch, eval mode,
\* before_validation_epoch (lines 281-289)
TrainEpochEnd ==
    /\ pc = "train_loop"
    /\ LET r == ZipNext(zip_loader) IN
       /\ ~r.ok
       /\ zip_loader' = r.z
    /\ mode' = ModulesEval(mode)
    /\ num_batches' = loaders.val
    /\ val_iter' = PlainIter(loaders.val)
    /\ enum' = 0
    /\ events' = events \o <<Event("after_training_epoch", t + 1, num_epochs, <<>>),
                              Event("before_validation_epoch", t + 1, num_epochs, <<>>)>>
    /\ pc' = "val_loop"
    /\ UNCHANGED <<ctor_call, ctor_af, sampled_at, gradVars, dataVars, num_classes, adaption_factor, lambd, is_main, world_size,
                   created, optimizer, metric, loaders, num_epochs, t, batch_id,
                   cur, calls, last, log>>
\* the epoch offset not scaled by the number of batches
ProgressNum_NoEpochScale(bid, epoch_id, nb) == bid + epoch_id

\* float(batch_id + epoch_id * num_batches): numerator of p (lines 183-184)
ProgressNum(bid, epoch_id, nb) == bid + epoch_id * nb

\* lambd applied to the source domain loss only
TotalLoss_TargetUnweighted(task_loss, disc_loss_source, disc_loss_target, lam) ==
    task_loss + lam * disc_loss_source + disc_loss_target

\* dann_loss = self.lambd * (disc_loss_source + disc_loss_target);
\* loss = task_loss + dann_loss (lines 208-210)
TotalLoss(task_loss, disc_loss_source, disc_loss_target, lam) ==
    LET dann_loss == lam * (disc_loss_source + disc_loss_target)
    IN  task_loss + dann_loss

\* the training metrics computed at every step
Sampled_EveryStep(bid, nb) == TRUE

\* log_step = math.ceil(num_batches / 5); batch_id % log_step == 0
\* (lines 217-218)
Sampled(bid, nb) ==
    LET log_step == Ceil(nb, 5)
    IN  bid % log_step = 0

\* on_training_step(source_loader, target_loader, batch_id, num_batches,
\* epoch_id, num_epochs): the values it computes (lines 175-210)
TrainingStepValues(src, tgt, bid, nb, epoch_id, ne) ==
    LET nc == num_classes[1]
        ver == optimizer.step
        sb == SourceBatch(src, nc)
        X_source == sb[1]
        y_source == sb[2]
        X_target == TargetBatch(tgt)[1]
        X_source_feat == Extractor(X_source, ver)
        y_source_pred == Classifier(X_source_feat, nc)
        pNum == ProgressNum(bid, epoch_id, nb)
        pDen == ne * nb
        gamma == IF adaption_factor THEN AdaptiveGamma(pNum, pDen) ELSE Scale
        X_source_rev == GRForward(X_source_feat, gamma).out
        y_source_disc == DomainClassifier(X_source_rev)
        X_target_feat == Extractor(X_target, ver)
        X_target_rev == GRForward(X_target_feat, gamma).out
        y_target_disc == DomainClassifier(X_target_rev)
        source_domain == 0
        target_domain == 1
        task_loss == LossFn(y_source_pred, y_source)
        disc_loss_source == LossFn(y_source_disc, source_domain)
        disc_loss_target == LossFn(y_target_disc, target_domain)
        loss == TotalLoss(task_loss, disc_loss_source, disc_loss_target, lambd)
    IN  [valid |-> TRUE, pNum |-> pNum, pDen |-> pDen, gamma |-> gamma,
         X_source_feat |-> X_source_feat, X_target_feat |-> X_target_feat,
         y_source_pred |-> y_source_pred, y_source |-> y_source,
         source_domain |-> source_domain, target_domain |-> target_domain,
         task_loss |-> task_loss, disc_loss_source |-> disc_loss_source,
         disc_loss_target |-> disc_loss_target, loss |-> loss,
         sampled |-> Sampled(bid, nb)]

\* the operations of on_training_step, in program order
TrainingStepCalls(sampled, main) ==
    <<"train_accuracy.reset", "train_loss.reset", "optimizer.zero_grad",
      "extractor", "classifier", "GradientReverse", "domain_classifier",
      "extractor", "GradientReverse", "domain_classifier",
      "loss_fn", "loss_fn", "loss_fn", "loss.backward", "optimizer.step">>
    \o (IF sampled
        THEN <<"train_loss.update", "train_accuracy.update",
               "train_loss.compute", "train_accuracy.compute">>
        ELSE <<>>)
    \o (IF sampled /\ main THEN <<"log">> ELSE <<>>)

\* torchmetrics accumulators: reset(), update(value), compute()
\* a reset that keeps what was accumulated
MetricReset_Keep(m) == m

MetricReset(m) == NoMetric

MetricUpdate(m, value) == [sum |-> m.sum + value, n |-> m.n + 1]

MetricCompute(m) == m.sum \div m.n

\* the six accumulators after on_training_step: both training accumulators
\* are reset (lines 171-172), then updated on a sampled step (lines 219-220)
TrainingStepMetric(m, v) ==
    LET r == [m EXCEPT !["train_accuracy"] = MetricReset(@),
                       !["train_loss"] = MetricReset(@)]
        correct == IF v.y_source_pred = v.y_source THEN 1 ELSE 0
    IN  IF v.sampled
        THEN [r EXCEPT !["train_loss"] = MetricUpdate(@, v.loss),
                       !["train_accuracy"] = MetricUpdate(@, correct)]
        ELSE r

\* on_training_step (lines 167-231)
OnTrainingStep ==
    /\ pc = "on_training_step"
    /\ LET v == TrainingStepValues(cur[1], cur[2], batch_id, num_batches, t,
                                   num_epochs)
           m == TrainingStepMetric(metric, v)
       IN  /\ last' = v
           /\ calls' = TrainingStepCalls(v.sampled, is_main)
           /\ metric' = m
           /\ sampled_at' = IF v.sampled THEN sampled_at \cup {<<t, batch_id>>}
                            ELSE sampled_at
           /\ log' = IF v.sampled /\ is_main
                     THEN Append(log, [loss |-> MetricCompute(m["train_loss"]),
                                       accuracy |-> (100 * m["train_accuracy"].sum)
                                                       \div m["train_accuracy"].n,
                                       batch_id |-> batch_id * world_size,
                                       num_batches |-> num_batches * world_size])
                     ELSE log
    /\ optimizer' = [zero_grad |-> optimizer.zero_grad + 1,
                     step |-> optimizer.step + 1]
    /\ events' = Append(events, Event("on_training_step", batch_id, num_batches,
                                      <<cur[1], cur[2], t, num_epochs>>))
    /\ pc' = "after_training_step"
    /\ UNCHANGED <<ctor_call, ctor_af, gradVars, dataVars, num_classes, adaption_factor, lambd, is_main, world_size,
                   created, mode, loaders, num_epochs, t, num_batches,
                   zip_loader, val_iter, enum, batch_id, cur>>

\* after_training_step (line 279)
AfterTrainingStep ==
    /\ pc = "after_training_step"
    /\ events' = Append(events, Event("after_training_step", batch_id, num_batches, <<>>))
    /\ pc' = "train_loop"
    /\ UNCHANGED <<ctor_call, ctor_af, sampled_at, gradVars, dataVars, num_classes, adaption_factor, lambd, is_main, world_size,
                   created, optimizer, metric, mode, loaders, num_epochs, t,
                   num_batches, zip_loader, val_iter, enum, batch_id, cur,
                   calls, last, log>>

\* for batch_id, val_batch in enumerate(val_loader): a batch is produced;
\* before_validation_step (lines 290-292)
ValFetch ==
    /\ pc = "val_loop"
    /\ LET r == IterNext(val_iter) IN
       /\ r.ok
       /\ val_iter' = r.it
       /\ cur' = <<r.item>>
    /\ batch_id' = enum
    /\ enum' = enum + 1
    /\ events' = Append(events, Event("before_validation_step", enum, num_batches, <<>>))
    /\ pc' = "validation_step"
    /\ UNCHANGED <<ctor_call, ctor_af, sampled_at, gradVars, dataVars, num_classes, adaption_factor, lambd, is_main, world_size,
                   created, optimizer, metric, mode, loaders, num_epochs, t,
                   num_batches, zip_loader, calls, last, log>>

\* the test step updating the validation accumulators
EvalStepMetric_ValOnly(batch, lossName, accName) ==
    LET nc == num_classes[1]
        vb == ValBatch(batch, nc)
        pred == Classifier(Extractor(vb[1], optimizer.step), nc)
    IN  [metric EXCEPT !["val_loss"] = [sum |-> @.sum + LossFn(pred, vb[2]),
                                        n |-> @.n + 1],
                       !["val_accuracy"] = [sum |-> @.sum + (IF pred = vb[2] THEN 1 ELSE 0),
                                            n |-> @.n + 1]]

\* the forward pass and metric update shared by validation_step and
\* on_test_step, on the accumulators named lossName and accName
EvalStepMetric(batch, lossName, accName) ==
    LET nc == num_classes[1]
        vb == ValBatch(batch, nc)
        X == vb[1]
        y == vb[2]
        feat == Extractor(X, optimizer.step)
        pred == Classifier(feat, nc)
    IN  [metric EXCEPT ![lossName] = [sum |-> @.sum + LossFn(pred, y),
                                      n |-> @.n + 1],
                       ![accName] = [sum |-> @.sum + (IF pred = y THEN 1 ELSE 0),
                                     n |-> @.n + 1]]

EvalStepCalls(lossName, accName) ==
    <<"extractor", "classifier", "loss_fn", lossName \o ".update",
      accName \o ".update">>

\* validation_step (lines 308-317)
ValidationStep ==
    /\ pc = "validation_step"
    /\ metric' = EvalStepMetric(cur[1], "val_loss", "val_accuracy")
    /\ calls' = EvalStepCalls("val_loss", "val_accuracy")
    /\ events' = Append(events, Event("validation_step", batch_id, num_batches, <<cur[1]>>))
    /\ pc' = "after_validation_step"
    /\ UNCHANGED <<ctor_call, ctor_af, sampled_at, gradVars, dataVars, num_classes, adaption_factor, lambd, is_main, world_size,
                   created, optimizer, mode, loaders, num_epochs, t, num_batches,
                   zip_loader, val_iter, enum, batch_id, cur, last, log>>

\* after_validation_step (line 296)
AfterValidationStep ==
    /\ pc = "after_validation_step"
    /\ events' = Append(events, Event("after_validation_step", batch_id, num_batches, <<>>))
    /\ pc' = "val_loop"
    /\ UNCHANGED <<ctor_call, ctor_af, sampled_at, gradVars, dataVars, num_classes, adaption_factor, lambd, is_main, world_size,
                   created, optimizer, metric, mode, loaders, num_epochs, t,
                   num_batches, zip_loader, val_iter, enum, batch_id, cur,
                   calls, last, log>>

\* the validation loader is exhausted: after_validation_epoch, next epoch
\* (line 298, back to line 250)
ValEpochEnd ==
    /\ pc = "val_loop"
    /\ ~IterNext(val_iter).ok
    /\ events' = Append(events, Event("after_validation_epoch", t + 1, num_epochs, <<>>))
    /\ t' = t + 1
    /\ pc' = "epoch"
    /\ UNCHANGED <<ctor_call, ctor_af, sampled_at, gradVars, dataVars, num_classes, adaption_factor, lambd, is_main, world_size,
                   created, optimizer, metric, mode, loaders, num_epochs,
                   num_batches, zip_loader, val_iter, enum, batch_id, cur,
                   calls, last, log>>

\* test(test_loader): ClassificationTrainer.test, eval mode and
\* before_test_epoch
TestBegin(lt) ==
    /\ pc = "fit_done"
    /\ loaders' = [loaders EXCEPT !.test = lt]
    /\ mode' = [m \in ModuleNames |-> "eval"]
    /\ num_batches' = lt
    /\ val_iter' = PlainIter(lt)
    /\ enum' = 0
    /\ events' = <<Event("before_test_epoch", 0, 0, <<>>)>>
    /\ pc' = "test_loop"
    /\ UNCHANGED <<ctor_call, ctor_af, sampled_at, gradVars, dataVars, num_classes, adaption_factor, lambd, is_main, world_size,
                   created, optimizer, metric, num_epochs, t, zip_loader,
                   batch_id, cur, calls, last, log>>

\* the test loop produces a batch: before_test_step
TestFetch ==
    /\ pc = "test_loop"
    /\ LET r == IterNext(val_iter) IN
       /\ r.ok
       /\ val_iter' = r.it
       /\ cur' = <<r.item>>
    /\ batch_id' = enum
    /\ enum' = enum + 1
    /\ events' = Append(events, Event("before_test_step", enum, num_batches, <<>>))
    /\ pc' = "on_test_step"
    /\ UNCHANGED <<ctor_call, ctor_af, sampled_at, gradVars, dataVars, num_classes, adaption_factor, lambd, is_main, world_size,
                   created, optimizer, metric, mode, loaders, num_epochs, t,
                   num_batches, zip_loader, calls, last, log>>

\* on_test_step (lines 319-326), then after_test_step
OnTestStep ==
    /\ pc = "on_test_step"
    /\ metric' = EvalStepMetric(cur[1], "test_loss", "test_accuracy")
    /\ calls' = EvalStepCalls("test_loss", "test_accuracy")
    /\ events' = events \o <<Event("on_test_step", batch_id, num_batches, <<cur[1]>>),
                              Event("after_test_step", batch_id, num_batches, <<>>)>>
    /\ pc' = "test_loop"
    /\ UNCHANGED <<ctor_call, ctor_af, sampled_at, gradVars, dataVars, num_classes, adaption_factor, lambd, is_main, world_size,
                   created, optimizer, mode, loaders, num_epochs, t, num_batches,
                   zip_loader, val_iter, enum, batch_id, cur, last, log>>

\* the test loader is exhausted: after_test_epoch
TestEnd ==
    /\ pc = "test_loop"
    /\ ~IterNext(val_iter).ok
    /\ events' = Append(events, Event("after_test_epoch", 0, 0, <<>>))
    /\ pc' = "test_done"
    /\ UNCHANGED <<ctor_call, ctor_af, sampled_at, gradVars, dataVars, num_classes, adaption_factor, lambd, is_main, world_size,
                   created, optimizer, metric, mode, loaders, num_epochs, t,
                   num_batches, zip_loader, val_iter, enum, batch_id, cur,
                   calls, last, log>>

\* ------------------------------------------------------ GradientReverse
\* the tensors and coefficients the round trip is exercised on
Tensors(n) == [1 .. n -> (0 - MaxMag) .. MaxMag]

GradInit ==
    /\ gpc = "fresh"
    /\ \E n \in 1 .. MaxDim : gx \in Tensors(n) /\ ggrad \in Tensors(n)
    /\ galpha \in (0 - MaxMag) .. MaxAlpha
    /\ gctx = <<>>
    /\ gout = <<>>
    /\ gback = <<>>

\* GradientReverse.apply(x, alpha): forward (lines 17-19)
GradForward ==
    /\ gpc = "fresh"
    /\ LET r == GRForward(gx, galpha) IN
       /\ gout' = <<r.out>>
       /\ gctx' = <<r.ctx>>
    /\ gpc' = "forwarded"
    /\ UNCHANGED <<trainerVars, dataVars, gx, galpha, ggrad, gback>>

\* autograd hands the incoming gradient to backward (lines 22-24)
GradBackward ==
    /\ gpc = "forwarded"
    /\ gback' = <<GRBackward(gctx[1], ggrad)>>
    /\ gpc' = "backwarded"
    /\ UNCHANGED <<trainerVars, dataVars, gx, galpha, ggrad, gctx, gout>>

GradNext == GradForward \/ GradBackward

\* -------------------------------------------------------- AMIGOSDataset
\* Python values carry their type
PyInt(n) == [ty |-> "int", v |-> n]
PyStr(x) == [ty |-> "str", v |-> x]
PyList(q) == [ty |-> "list", v |-> q]
PyDict(q) == [ty |-> "dict", v |-> q]

\* str(value): a string is returned as it is, an int becomes its digits
Str(pv) == IF pv.ty = "str" THEN pv ELSE PyStr(<<pv.v>>)

\* dict[key] and dict.values() of a dict kept as a sequence of <<key, value>>
DictGet(d, key) == d[CHOOSE i \in DOMAIN d : d[i][1] = key][2]
DictValues(d) == [i \in DOMAIN d |-> d[i][2]]

RootPaths == {"./data_preprocessed"}
ChannelNums == {1}
IoPaths == {"./io/amigos"}
OnlineTransforms == {None, "negate"}
OfflineTransforms == {None, "double"}
LabelTransforms == {None, "select", "select_list", "select_dict"}

Configs ==
    {c \in [root_path : RootPaths, chunk_size : 1 .. MaxChunk,
            overlap : 0 .. MaxChunk - 1, channel_num : ChannelNums,
            trial_num : 1 .. MaxTrials, online_transform : OnlineTransforms,
            offline_transform : OfflineTransforms,
            label_transform : LabelTransforms, io_path : IoPaths] :
        c.overlap < c.chunk_size}

\* the raw recording below root_path: sample i of a channel of a trial, and
\* the trial's ratings
Sample(trial, ch, i) == 100 * trial + 10 * ch + i
Valence(trial) == 4 + trial
Arousal(trial) == 7 - trial

\* the transforms, which are pure functions supplied by the caller
ApplyArray(tf, eeg) ==
    IF tf = "negate" THEN [c \in DOMAIN eeg |-> [j \in DOMAIN eeg[c] |-> 0 - eeg[c][j]]]
    ELSE [c \in DOMAIN eeg |-> [j \in DOMAIN eeg[c] |-> 2 * eeg[c][j]]]

ApplyLabel(tf, info) ==
    IF tf = "select" THEN DictGet(info, "valence")
    ELSE IF tf = "select_list"
    THEN PyList(<<DictGet(info, "valence"), DictGet(info, "arousal")>>)
    ELSE PyDict(<<<<"valence", DictGet(info, "valence")>>>>)

\* start offsets of the chunks of one trial
RECURSIVE ChunkStarts(_, _, _)
ChunkStarts(start_at, chunk_size, step) ==
    IF start_at + chunk_size > SigLen THEN <<>>
    ELSE <<start_at>> \o ChunkStarts(start_at + step, chunk_size, step)

\* the <<trial, start_at>> of every chunk of the first n trials, in write order
RECURSIVE TrialChunks(_, _)
TrialChunks(n, c) ==
    IF n = 0 THEN <<>>
    ELSE TrialChunks(n - 1, c) \o
         LET st == ChunkStarts(0, c.chunk_size, c.chunk_size - c.overlap)
         IN  [k \in DOMAIN st |-> <<n, st[k]>>]

ClipId(write_pointer) == PyStr(<<"Data_Preprocessed_P01.mat", write_pointer>>)

\* the chunking loop of amigos_constructor: every chunk of every trial and
\* its metadata row are written below io_path
BuildCache(store, c) ==
    LET chunks == TrialChunks(c.trial_num, c)
        clip(k) ==
            [ch \in 1 .. c.channel_num |->
                [j \in 1 .. c.chunk_size |->
                    Sample(chunks[k][1], ch, chunks[k][2] + j - 1)]]
        t_eeg(k) == IF c.offline_transform /= None
                    THEN ApplyArray(c.offline_transform, clip(k))
                    ELSE clip(k)
        eeg == [key \in {ClipId(k - 1) : k \in DOMAIN chunks} |->
                   t_eeg(CHOOSE k \in DOMAIN chunks : ClipId(k - 1) = key)]
        info == [k \in DOMAIN chunks |->
                   <<<<"clip_id", ClipId(k - 1)>>,
                     <<"trial_id", PyInt(chunks[k][1])>>,
                     <<"start_at", PyInt(chunks[k][2])>>,
                     <<"valence", PyInt(Valence(chunks[k][1]))>>,
                     <<"arousal", PyInt(Arousal(chunks[k][1]))>>>>]
    IN  [fs |-> [store EXCEPT ![c.io_path] = <<[eeg |-> eeg, info |-> info]>>],
         written |-> Len(chunks)]

\* the cache is rebuilt although io_path exists
AmigosConstructor_AlwaysBuild(store, c) == BuildCache(store, c)

\* amigos_constructor(root_path, chunk_size, overlap, channel_num, trial_num,
\* transform, io_path, ...): nothing is done when io_path exists; else the
\* cache is built
AmigosConstructor(store, c) ==
    IF store[c.io_path] /= <<>> THEN [fs |-> store, written |-> 0]
    ELSE BuildCache(store, c)

\* BaseDataset.__init__(io_path): the metadata table is read into self.info
\* and self.eeg_io refers to the cache below io_path
BaseDatasetInit(store, io_path) ==
    [info |-> store[io_path][1].info, eeg_io |-> io_path]

DataIdle ==
    /\ fs = [p \in IoPaths |-> <<>>]
    /\ writes = 0
    /\ constructs = 0
    /\ ds = <<>>
    /\ ret = <<>>

\* AMIGOSDataset.__init__ (lines 100-132); BaseDataset.__init__(io_path)
\* loads the metadata table and opens the cache
DatasetInit(c) ==
    /\ constructs < MaxConstructs
    /\ constructs' = constructs + 1
    /\ LET r == AmigosConstructor(fs, c) IN
       /\ fs' = r.fs
       /\ writes' = writes + r.written
       /\ ds' = <<[cfg |-> c] @@ BaseDatasetInit(r.fs, c.io_path)>>
    /\ ret' = <<>>
    /\ UNCHANGED <<trainerVars, gradVars>>

\* a list returned by the label transform is not expanded
GetItemResult_ListNotExpanded(self, store, index) ==
    LET info0 == self.info[index + 1]
        eeg0 == store[self.eeg_io][1].eeg[Str(DictGet(info0, "clip_id"))]
        eeg == IF self.cfg.online_transform /= None
               THEN ApplyArray(self.cfg.online_transform, eeg0)
               ELSE eeg0
        info == IF self.cfg.label_transform /= None
                THEN ApplyLabel(self.cfg.label_transform, info0)
                ELSE PyDict(info0)
    IN  IF info.ty = "dict" THEN <<eeg>> \o DictValues(info.v)
        ELSE <<eeg, info>>

\* AMIGOSDataset.__getitem__(index) (lines 134-150)
GetItemResult(self, store, index) ==
    LET info0 == self.info[index + 1]
        eeg_index == Str(DictGet(info0, "clip_id"))
        eeg0 == store[self.eeg_io][1].eeg[eeg_index]
        eeg == IF self.cfg.online_transform /= None
               THEN ApplyArray(self.cfg.online_transform, eeg0)
               ELSE eeg0
        info == IF self.cfg.label_transform /= None
                THEN ApplyLabel(self.cfg.label_transform, info0)
                ELSE PyDict(info0)
    IN  IF info.ty = "list" THEN <<eeg>> \o info.v
        ELSE IF info.ty = "dict" THEN <<eeg>> \o DictValues(info.v)
        ELSE <<eeg, info>>

GetItem(index) ==
    /\ ds /= <<>>
    /\ fs[ds[1].eeg_io] /= <<>>
    /\ index \in 0 .. Len(ds[1].info) - 1
    /\ ret' = <<[index |-> index, value |-> GetItemResult(ds[1], fs, index)]>>
    /\ UNCHANGED <<trainerVars, gradVars, fs, writes, constructs, ds>>

\* the user deletes the cache directory io_path between two constructions
RemoveCache(io_path) ==
    /\ fs[io_path] /= <<>>
    /\ constructs < MaxConstructs
    /\ fs' = [fs EXCEPT ![io_path] = <<>>]
    /\ ret' = <<>>
    /\ UNCHANGED <<trainerVars, gradVars, writes, constructs, ds>>

DataNext ==
    \/ \E c \in Configs : DatasetInit(c)
    \/ \E io_path \in IoPaths : RemoveCache(io_path)
    \/ \E index \in 0 .. MaxTrials * SigLen : GetItem(index)

GradIdle ==
    /\ gpc = "idle"
    /\ gx = <<>>
    /\ galpha = 0
    /\ ggrad = <<>>
    /\ gctx = <<>>
    /\ gout = <<>>
    /\ gback = <<>>

Init == TrainerInit /\ GradIdle /\ DataIdle

Next ==
    \/ \E arg \in Opt(2 .. MaxClasses), attr \in Opt(2 .. MaxClasses),
          lam \in {MaxLambd}, af \in Opt(BOOLEAN), main \in BOOLEAN :
          Construct(arg, attr, lam, af, main) /\ UNCHANGED ctor_call
    \/ \E lp \in LoaderPairs, lv \in 0 .. MaxVal, n \in 0 .. MaxEpochs :
          FitBegin(lp[1], lp[2], lv, n)
    \/ EpochStart
    \/ FitReturn
    \/ TrainFetch
    \/ TrainEpochEnd
    \/ OnTrainingStep
    \/ AfterTrainingStep
    \/ ValFetch
    \/ ValidationStep
    \/ AfterValidationStep
    \/ ValEpochEnd
    \/ \E lt \in 0 .. MaxVal : TestBegin(lt)
    \/ TestFetch
    \/ OnTestStep
    \/ TestEnd

Spec == Init /\ [][Next]_vars

\* construction alone, remembering the num_classes arguments of the call
CtorNext ==
    \E arg \in Opt(2 .. MaxClasses), attr \in Opt(2 .. MaxClasses),
       lam \in 0 .. MaxLambd, af \in Opt(BOOLEAN), main \in BOOLEAN :
       Construct(arg, attr, lam, af, main)
       /\ ctor_call' = <<[arg |-> arg, attr |-> attr]>>

CtorSpec == Init /\ [][CtorNext]_vars

GradSpecInit == TrainerInit /\ GradInit /\ DataIdle

GradSpec == GradSpecInit /\ [][GradNext]_vars

DataSpec == Init /\ [][DataNext]_vars
\* ================================================================ claims
\* the on_training_step invocations of the epoch with 0-based index e
TrainStepsOfEpoch(e) ==
    SelectSeq(events, LAMBDA v : v.ev = "on_training_step" /\ v.x[3] = e)

\* the epoch whose training loop has ended (1-based), for every such epoch
TrainedEpochs == {events[i].a : i \in {j \in DOMAIN events :
                                       events[j].ev = "after_training_epoch"}}

InFit == pc \in {"epoch", "train_loop", "on_training_step",
                 "after_training_step", "val_loop", "validation_step",
                 "after_validation_step", "fit_done"}

\* C1 as stated: in every training epoch of fit the number of training
\* steps equals max(len(source_loader), len(target_loader)), the value the
\* steps receive as num_batches, for every pair of loader lengths >= 0.
C1_AsStated ==
    InFit =>
        \A e \in TrainedEpochs :
            LET steps == TrainStepsOfEpoch(e - 1) IN
            /\ Len(steps) = Max(loaders.source, loaders.target)
            /\ \A k \in DOMAIN steps :
                   steps[k].b = Max(loaders.source, loaders.target)

\* C1 as amended: in every training epoch the number of training steps is
\* max(len(source_loader), len(target_loader)) when both loaders are
\* non-empty and 0 when either loader is empty; every step that runs receives
\* max(len(source_loader), len(target_loader)) as num_batches.
C1_StepsPerEpoch ==
    InFit =>
        \A e \in TrainedEpochs :
            LET steps == TrainStepsOfEpoch(e - 1) IN
            /\ Len(steps) = IF loaders.source = 0 \/ loaders.target = 0 THEN 0
                            ELSE Max(loaders.source, loaders.target)
            /\ \A k \in DOMAIN steps :
                   steps[k].b = Max(loaders.source, loaders.target)

\* an epoch has been trained with a target loader longer than the source
C1_Witness ==
    /\ pc = "fit_done"
    /\ num_epochs = MaxEpochs
    /\ loaders.source >= 2
    /\ loaders.target > loaders.source

\* C2: training step i receives batch i of the longer loader and batch
\* (i mod len(shorter)) of the shorter one, both loaders restart at batch 0
\* in each epoch, and for lengths 10 and 4 the target batches of an epoch are
\* 0,1,2,3,0,1,2,3,0,1 while the source batches are 0..9, each once.
C2_CyclePairing ==
    InFit =>
        /\ \A i \in DOMAIN events :
               events[i].ev = "on_training_step" =>
                   LET k == events[i].a
                       src == events[i].x[1]
                       tgt == events[i].x[2]
                   IN  IF loaders.source > loaders.target
                       THEN src = k /\ tgt = k % loaders.target
                       ELSE tgt = k /\ src = k % loaders.source
        /\ \A e \in TrainedEpochs :
               LET steps == TrainStepsOfEpoch(e - 1) IN
               /\ \A k \in DOMAIN steps : steps[k].a = k - 1
               /\ (loaders.source = 10 /\ loaders.target = 4) =>
                      /\ [k \in DOMAIN steps |-> steps[k].x[2]]
                             = <<0, 1, 2, 3, 0, 1, 2, 3, 0, 1>>
                      /\ [k \in DOMAIN steps |-> steps[k].x[1]]
                             = <<0, 1, 2, 3, 4, 5, 6, 7, 8, 9>>

\* two epochs have run with source length 10 and target length 4
C2_Witness ==
    /\ pc = "fit_done"
    /\ num_epochs = 2
    /\ loaders.source = 10
    /\ loaders.target = 4
    /\ Len(TrainStepsOfEpoch(1)) = 10

\* the lifecycle events fit is to produce, as <<name, first, second argument>>
StepEvents(names, n, nb) ==
    [k \in 1 .. 3 * n |-> <<names[((k - 1) % 3) + 1], (k - 1) \div 3, nb>>]

EpochEvents(e, ne, nTrain, nbTrain, nVal) ==
    <<<<"before_training_epoch", e, ne>>>>
    \o StepEvents(<<"before_training_step", "on_training_step",
                    "after_training_step">>, nTrain, nbTrain)
    \o <<<<"after_training_epoch", e, ne>>, <<"before_validation_epoch", e, ne>>>>
    \o StepEvents(<<"before_validation_step", "validation_step",
                    "after_validation_step">>, nVal, nVal)
    \o <<<<"after_validation_epoch", e, ne>>>>

RECURSIVE FitEvents(_, _, _, _, _)
FitEvents(e, ne, nTrain, nbTrain, nVal) ==
    IF e = 0 THEN <<>>
    ELSE FitEvents(e - 1, ne, nTrain, nbTrain, nVal)
         \o EpochEvents(e, ne, nTrain, nbTrain, nVal)

ExpectedFitEvents ==
    FitEvents(num_epochs, num_epochs,
              IF loaders.source = 0 \/ loaders.target = 0 THEN 0
              ELSE Max(loaders.source, loaders.target),
              Max(loaders.source, loaders.target), loaders.val)

SeenFitEvents == [i \in DOMAIN events |-> <<events[i].ev, events[i].a, events[i].b>>]

IsPrefix(a, b) == Len(a) <= Len(b) /\ a = SubSeq(b, 1, Len(a))

C4_NumClasses ==
    ctor_call /= <<>> =>
        LET arg == ctor_call[1].arg
            attr == ctor_call[1].attr
        IN  IF arg = <<>> /\ attr = <<>>
            THEN /\ pc = "ValueError"
                 /\ created \cap ({"optimizer", "loss_fn"} \cup MetricNames) = {}
                 /\ num_classes = <<>>
            ELSE /\ pc = "ready"
                 /\ num_classes = (IF arg /= <<>> THEN arg ELSE attr)
                 /\ ({"optimizer", "loss_fn"} \cup MetricNames) \subseteq created

\* a construction has failed for want of num_classes
C4_Witness ==
    /\ pc = "ValueError"
    /\ ctor_call /= <<>>
    /\ ctor_call[1].arg = <<>>
    /\ ctor_call[1].attr = <<>>

\* the three gradient operations among the operations of the last step
GradOps(q) ==
    SelectSeq(q, LAMBDA c : c \in {"optimizer.zero_grad", "loss.backward",
                                   "optimizer.step"})

TrainStepCount ==
    Len(SelectSeq(events, LAMBDA v : v.ev = "on_training_step"))

\* C5: in every training step the back-propagated loss is
\* task_loss + lambd * (source_domain_loss + target_domain_loss), the source
\* domain loss being taken against class 0 and the target domain loss against
\* class 1 on the domain classifier's output for the unscaled features; each
\* step does one gradient reset, one backward pass and one optimizer step, in
\* that order.
C5_TotalLoss ==
    /\ last.valid =>
           /\ last.loss = last.task_loss
                  + lambd * (last.disc_loss_source + last.disc_loss_target)
           /\ last.task_loss = LossFn(last.y_source_pred, last.y_source)
           /\ last.disc_loss_source
                  = LossFn(DomainClassifier(last.X_source_feat), 0)
           /\ last.disc_loss_target
                  = LossFn(DomainClassifier(last.X_target_feat), 1)
    /\ pc = "after_training_step" =>
           GradOps(calls) = <<"optimizer.zero_grad", "loss.backward",
                              "optimizer.step">>
    /\ InFit => /\ optimizer.zero_grad = TrainStepCount
                /\ optimizer.step = TrainStepCount

\* a training step has run with the largest lambd and a coefficient strictly
\* between 0 and 1
C5_Witness ==
    /\ pc = "after_training_step"
    /\ lambd = MaxLambd
    /\ adaption_factor
    /\ last.gamma > 0
    /\ last.gamma < Scale
    /\ last.disc_loss_source /= last.disc_loss_target

\* C6: the forward output of gradient reversal is x itself, the backward
\* gradient for x is -alpha * g for the incoming gradient g, and no gradient
\* is produced for alpha.
C6_GradientReverse ==
    /\ gout /= <<>> => gout[1] = gx
    /\ gback /= <<>> =>
           /\ DOMAIN gback[1][1] = DOMAIN ggrad
           /\ \A i \in DOMAIN ggrad : gback[1][1][i] = 0 - galpha * ggrad[i]
           /\ gback[1][2] = None

\* a backward pass has run with a non-zero coefficient and gradient
C6_Witness ==
    /\ gpc = "backwarded"
    /\ galpha > 1
    /\ \E i \in DOMAIN ggrad : ggrad[i] /= 0

\* C7: with the adaptive schedule the coefficient of a training step is
\* 2/(1+exp(-10p)) - 1 with p = (epoch_index*num_batches + batch_id) /
\* (num_epochs*num_batches), the fraction of the fit's training steps done
\* before the step: p is 0 (coefficient 0) at the first step, grows strictly
\* from each step to the next, across epochs too, and stays below 1; at
\* p = 0.5 the coefficient is 2/(1+exp(-5)) - 1 = 0.9866; without the
\* schedule the coefficient is 1.0.
C7_AdaptiveFactor ==
    [][(pc = "on_training_step" /\ pc' = "after_training_step") =>
          IF adaption_factor
          THEN /\ last'.pNum = t * num_batches + batch_id
               /\ last'.pDen = num_epochs * num_batches
               /\ last'.pNum = optimizer.step
               /\ last'.pDen = num_epochs * Max(loaders.source, loaders.target)
               /\ last'.gamma = AdaptiveGamma(last'.pNum, last'.pDen)
               /\ (t = 0 /\ batch_id = 0) => (last'.pNum = 0 /\ last'.gamma = 0)
               /\ last'.pNum < last'.pDen
               /\ last.valid =>
                      /\ last'.pNum * last.pDen > last.pNum * last'.pDen
                      /\ last'.gamma >= last.gamma
               /\ last'.gamma >= 0 /\ last'.gamma <= Scale
               /\ 2 * last'.pNum = last'.pDen =>
                      (1000 * last'.gamma) \div Scale \in 985 .. 988
          ELSE last'.gamma = Scale]_vars

\* the first step of the second epoch has run under the adaptive schedule
C7_Witness ==
    /\ pc = "after_training_step"
    /\ adaption_factor
    /\ t = 1
    /\ batch_id = 0
    /\ num_batches >= 2
    /\ 2 * last.pNum = last.pDen

Count(q, c) == Len(SelectSeq(q, LAMBDA v : v = c))

\* what a validation or test step may change
EvalStepEffect(lossName, accName) ==
    /\ optimizer' = optimizer
    /\ \A m \in MetricNames \ {lossName, accName} : metric'[m] = metric[m]
    /\ metric'[lossName].n = metric[lossName].n + 1
    /\ metric'[accName].n = metric[accName].n + 1
    /\ Count(calls', "extractor") = 1
    /\ Count(calls', "classifier") = 1
    /\ \A c \in {"domain_classifier", "GradientReverse", "loss.backward",
                 "optimizer.zero_grad", "optimizer.step"} : Count(calls', c) = 0
    /\ mode' = mode
    /\ last' = last
    /\ log' = log
    /\ <<num_classes, adaption_factor, lambd, created>>'
           = <<num_classes, adaption_factor, lambd, created>>

\* C8: a validation step and a test step run one forward pass through the
\* extractor and the classifier only, never the domain classifier, gradient
\* reversal, a backward pass, a gradient reset or an optimizer step; they
\* change only the validation (resp. test) loss and accuracy accumulators,
\* by one update each, and leave the optimizer and the training accumulators
\* as they were.
C8_EvalSteps ==
    [][/\ (pc = "validation_step" /\ pc' /= pc) =>
              EvalStepEffect("val_loss", "val_accuracy")
       /\ (pc = "on_test_step" /\ pc' /= pc) =>
              EvalStepEffect("test_loss", "test_accuracy")]_vars

\* validation steps and a test step have run after training steps
C8_Witness ==
    /\ pc = "test_loop"
    /\ metric["test_loss"].n >= 1
    /\ metric["val_loss"].n >= 2
    /\ optimizer.step >= 2

BuildConfig(c) == <<c.root_path, c.chunk_size, c.overlap, c.channel_num,
                    c.trial_num, c.offline_transform, c.io_path>>

\* C10: a second construction with the same root path, chunk size, overlap,
\* channel count, trial count, offline transform and io_path, while the cache
\* directory exists, writes no chunk: cache and metadata stay as the first
\* construction left them.
C10_Idempotent ==
    [][(/\ constructs' = constructs + 1
        /\ ds /= <<>>
        /\ fs[ds[1].cfg.io_path] /= <<>>
        /\ BuildConfig(ds'[1].cfg) = BuildConfig(ds[1].cfg)) =>
          /\ writes' = writes
          /\ fs' = fs
          /\ ds'[1].info = ds[1].info
          /\ ds'[1].eeg_io = ds[1].eeg_io]_vars

\* two constructions have used one io_path, whose cache is the one the
\* configuration of the second builds, written once
C10_Witness ==
    /\ constructs = 2
    /\ ds /= <<>>
    /\ fs[ds[1].cfg.io_path]
           = AmigosConstructor([q \in IoPaths |-> <<>>], ds[1].cfg).fs[ds[1].cfg.io_path]
    /\ writes = Len(ds[1].info)
    /\ writes >= 2

\* C11 as stated: adaption_factor defaults to True: a trainer constructed
\* without passing adaption_factor has the option set, and each of its
\* training steps uses the adaptive (sigmoid-ramped) reversal coefficient of
\* its progress p, not the fixed coefficient 1.0.
C11_AsStated ==
    (pc /= "new" /\ ctor_af = <<>>) =>
        /\ adaption_factor = TRUE
        /\ (pc = "after_training_step" /\ last.valid) =>
               last.gamma = AdaptiveGamma(last.pNum, last.pDen)

\* C12: the training loss and accuracy accumulators are reset at the start of
\* every training step, sampled or not: after a sampled step each holds
\* exactly one update, that of the step's own batch, and a line logged by the
\* step shows that batch's loss and accuracy alone, whatever earlier steps of
\* the epoch accumulated; after an unsampled step both are empty and nothing
\* is logged.
C12_ResetEveryStep ==
    [][(pc = "on_training_step" /\ pc' = "after_training_step") =>
          LET correct == IF last'.y_source_pred = last'.y_source THEN 1 ELSE 0
          IN  /\ Count(calls', "train_loss.reset") = 1
              /\ Count(calls', "train_accuracy.reset") = 1
              /\ IF last'.sampled
                 THEN /\ metric'["train_loss"] = [sum |-> last'.loss, n |-> 1]
                      /\ metric'["train_accuracy"] = [sum |-> correct, n |-> 1]
                      /\ Len(log') > Len(log) =>
                            /\ log' = Append(log, log'[Len(log')])
                            /\ log'[Len(log')].loss = last'.loss
                            /\ log'[Len(log')].accuracy = 100 * correct
                 ELSE /\ metric'["train_loss"] = NoMetric
                      /\ metric'["train_accuracy"] = NoMetric
                      /\ log' = log]_vars

\* a sampled step has logged after an unsampled step and an earlier sampled
\* step of the same epoch whose logged loss differs
C12_Witness ==
    /\ pc = "after_training_step"
    /\ last.sampled
    /\ batch_id >= 2
    /\ Ceil(num_batches, 5) >= 2
    /\ metric["train_loss"].n = 1
    /\ Len(log) >= 2
    /\ log[Len(log)].batch_id = batch_id * world_size
    /\ log[Len(log)].loss /= log[Len(log) - 1].loss

\* the batch ids of the steps of the epoch with 0-based index e that computed
\* the training metrics
SampledIds(e) == {x[2] : x \in {y \in sampled_at : y[1] = e}}

\* of every epoch whose training loop ran at least one step and has ended:
\* the sampled steps are those with an index divisible by ceil(num_batches/5),
\* step 0 among them, between one and five in all
SampledPerEpoch ==
    InFit =>
        \A e \in TrainedEpochs :
            LET steps == TrainStepsOfEpoch(e - 1)
                n == Len(steps)
            IN  n >= 1 =>
                    /\ n = steps[1].b
                    /\ SampledIds(e - 1)
                           = {i \in 0 .. n - 1 : i % Ceil(steps[1].b, 5) = 0}
                    /\ 0 \in SampledIds(e - 1)
                    /\ Cardinality(SampledIds(e - 1)) \in 1 .. 5

\* C13: within an epoch of num_batches >= 1 training steps, the training
\* metrics are computed exactly at the steps whose 0-based index is divisible
\* by ceil(num_batches / 5), step 0 always among them, which makes between one
\* and five sampled steps per epoch; a step writes a log line exactly when it
\* is sampled and the replica is the main one, and one line at most.
C13_SampledSteps ==
    [][/\ (pc = "on_training_step" /\ pc' = "after_training_step") =>
             /\ last'.sampled <=> (batch_id % Ceil(num_batches, 5) = 0)
             /\ batch_id = 0 => last'.sampled
             /\ Count(calls', "train_loss.compute")
                    = (IF last'.sampled THEN 1 ELSE 0)
             /\ Count(calls', "train_accuracy.compute")
                    = (IF last'.sampled THEN 1 ELSE 0)
             /\ Count(calls', "log")
                    = (IF last'.sampled /\ is_main THEN 1 ELSE 0)
             /\ Len(log') = Len(log) + (IF last'.sampled /\ is_main THEN 1 ELSE 0)
             /\ (<<t, batch_id>> \in sampled_at') <=> last'.sampled
       /\ SampledPerEpoch']_vars

\* an epoch of ten steps has ended on a replica that is not the main one:
\* five steps were sampled, one step in two, and nothing was logged
C13_Witness ==
    /\ pc = "val_loop"
    /\ t = 0
    /\ ~is_main
    /\ Len(TrainStepsOfEpoch(0)) = 10
    /\ SampledIds(0) = {0, 2, 4, 6, 8}
    /\ log = <<>>

AllInMode(md, x) == \A k \in ModuleNames : md[k] = x

\* C14: during fit the extractor, the classifier and the domain classifier
\* are in train mode at every training step and in eval mode at every
\* validation step of every epoch; an epoch that follows another starts from
\* eval mode and switches back to train; after fit returns with
\* num_epochs >= 1 all three are in eval mode; with num_epochs = 0 fit
\* changes no module mode and runs no hook.
C14_Modes ==
    [][/\ pc' \in {"on_training_step", "after_training_step", "train_loop"} =>
             AllInMode(mode', "train")
       /\ pc' \in {"validation_step", "after_validation_step", "val_loop"} =>
             AllInMode(mode', "eval")
       /\ (pc = "epoch" /\ pc' = "train_loop") =>
             /\ t >= 1 => AllInMode(mode, "eval")
             /\ AllInMode(mode', "train")
       /\ (pc' = "fit_done" /\ num_epochs' >= 1) => AllInMode(mode', "eval")
       /\ (pc = "ready" /\ pc' = "epoch" /\ num_epochs' = 0) =>
             (mode' = mode /\ events' = <<>>)
       /\ (pc = "epoch" /\ num_epochs = 0) =>
             (pc' = "fit_done" /\ mode' = mode /\ events' = <<>>)]_vars

\* a training step of the second epoch is about to run: the modules, left in
\* eval mode by the first epoch's validation, are in train mode again
C14_Witness ==
    /\ pc = "on_training_step"
    /\ t = 1
    /\ AllInMode(mode, "train")
    /\ \E i \in DOMAIN events : events[i].ev = "validation_step"
====
